---------------------------- MODULE Spec2Model ----------------------------
(***************************************************************************)
(* The row-trimming plugin (src/src/plugins/trimRows/trimRows.js) as a     *)
(* state machine.  The plugin keeps no index list of its own: the list of  *)
(* trimmed physical rows lives in the host's record translator and is read *)
(* with getSkippedRows() and replaced with setSkippedRows(list).  Every    *)
(* public method of the plugin is one action; the values a method reads    *)
(* from its environment (its argument, what the before-hook's listeners    *)
(* return) are the action's inputs.                                        *)
(***************************************************************************)
EXTENDS Integers, Sequences, FiniteSets

(***************************************************************************)
(* Bounds of the model.                                                    *)
(***************************************************************************)
\* the longest `rows` argument passed to trimRows / untrimRows
MaxLen == 2
\* the largest number of rows the data source holds
MaxSourceRows == 2

\* the row counts the data source can have
SourceRowCounts == {MaxSourceRows - 1, MaxSourceRows}
\* the numbers that occur as row indexes: -1 is valid for no source, the
\* largest is valid for the longer source only, the others for both
Values == -1..(MaxSourceRows - 1)
\* the arrays passed as `rows`: every choice of at most MaxLen values, repeats
\* included, written in ascending order
RowLists ==
    {s \in UNION {[1..n -> Values] : n \in 0..MaxLen} :
        \A i \in 1..(Len(s) - 1) : s[i] <= s[i + 1]}
\* the arrays the host configuration supplies as the initial list: one of
\* valid rows, one that repeats a row (valid for the longer source only), one
\* with a negative row
ConfigLists == {<<0>>, <<1, 1>>, <<-1, 0>>}
\* the host option `trimRows`: an array (always truthy), a truthy value that
\* is no array (true, 1, "x", {}), or a falsy one (undefined, false, 0)
NotArray == [isArray |-> FALSE, truthy |-> FALSE, list |-> <<>>]
TruthyNotArray == [isArray |-> FALSE, truthy |-> TRUE, list |-> <<>>]
SettingsValues ==
    {NotArray, TruthyNotArray}
        \cup {[isArray |-> TRUE, truthy |-> TRUE, list |-> l] : l \in ConfigLists}
\* what the listeners of a before-hook return
ListenerReturns == {"false", "undefined"}
\* what a listener of a before-hook calls on the plugin while it runs: nothing,
\* or trimRows / untrimRows with one row index (out of range for the shorter
\* data source)
NoCall == [op |-> "none", rows |-> <<>>]
ListenerCalls ==
    {[op |-> op, rows |-> <<row>>] :
        op \in {"trimRows", "untrimRows"}, row \in 0..(MaxSourceRows - 1)}
\* the rows argument of a call whose listener calls the plugin: no row or one
ReentrantRowLists == {rows \in RowLists : Len(rows) <= 1}

VARIABLES
    skippedRows,      \* the record translator's list of skipped (trimmed) rows
    enabled,          \* BasePlugin's `enabled` flag
    settings,         \* hot.getSettings().trimRows
    countSourceRows,  \* hot.countSourceRows()
    lastCall,         \* the most recent call: method, argument, listeners' answer
    fired,            \* the hooks the most recent call ran, in order, with their arguments
    repeated,         \* the most recent call repeats the committed call right before it
    steps,            \* what the most recent trimRows / untrimRows call did, in order:
                      \* the hooks it ran and its setSkippedRows
    listenerCall      \* the call a before-hook listener made during the most recent call

vars == <<skippedRows, enabled, settings, countSourceRows, lastCall, fired, repeated,
          steps, listenerCall>>

(***************************************************************************)
(* Array helpers.                                                          *)
(***************************************************************************)
\* the set of the elements of an array
Range(s) == {s[i] : i \in DOMAIN s}

\* Array.prototype.includes
includes(s, x) == \E i \in DOMAIN s : s[i] = x

\* Array.from(new Set(s)): the first occurrence of every element, in order
RECURSIVE ArrayFromSet(_)
ArrayFromSet(s) ==
    IF s = <<>> THEN <<>>
    ELSE LET front == ArrayFromSet(SubSeq(s, 1, Len(s) - 1))
             last  == s[Len(s)]
         IN  IF includes(front, last) THEN front ELSE Append(front, last)

\* the test isValidConfig applies to every element
isValidRow(trimmedRow) ==
    trimmedRow \in Int /\ trimmedRow >= 0 /\ trimmedRow < countSourceRows

\* TrimRows.isValidConfig(trimmedRows): Array.prototype.every over that test
isValidConfig(trimmedRows) ==
    \A i \in DOMAIN trimmedRows : isValidRow(trimmedRows[i])


(***************************************************************************)
(* The collaborators of the plugin: the record translator's skip list, the *)
(* hook bus and the base plugin's lifecycle flag.                          *)
(***************************************************************************)
\* recordTranslator.getSkippedRows(): the current list
getSkippedRows == skippedRows

\* the Skip Registry's test of one index: an integer, not negative, less than
\* the source length
validIndex_inclusive(index, sourceCount) ==
    index \in Int /\ index >= 0 /\ index <= sourceCount
validIndex(index, sourceCount) ==
    index \in Int /\ index >= 0 /\ index < sourceCount

\* recordTranslator.setSkippedRows(rows) on the list `registry`: the list it
\* leaves, and whether it raised InvalidIndexError.  The registry is a set: it
\* keeps every index once.  A batch with an invalid index is rejected whole:
\* the call raises and the list stays as it was.
setSkippedRows_unchecked(registry, rows) ==
    [skippedRows |-> ArrayFromSet(rows), raised |-> FALSE]
setSkippedRows_silent(registry, rows) ==
    IF \E i \in DOMAIN rows : ~validIndex(rows[i], countSourceRows)
    THEN [skippedRows |-> registry, raised |-> FALSE]
    ELSE [skippedRows |-> ArrayFromSet(rows), raised |-> FALSE]
setSkippedRows_keepsRepeats(registry, rows) ==
    IF \E i \in DOMAIN rows : ~validIndex(rows[i], countSourceRows)
    THEN [skippedRows |-> registry, raised |-> TRUE]
    ELSE [skippedRows |-> rows, raised |-> FALSE]
setSkippedRows(registry, rows) ==
    IF \E i \in DOMAIN rows : ~validIndex(rows[i], countSourceRows)
    THEN [skippedRows |-> registry, raised |-> TRUE]
    ELSE [skippedRows |-> ArrayFromSet(rows), raised |-> FALSE]

\* the registry's re-validation when the data source is replaced by one of
\* sourceCount rows: the indexes that are valid for the new source stay
revalidate_keepsAll(registry, sourceCount) == registry
revalidate(registry, sourceCount) ==
    SelectSeq(registry, LAMBDA index : validIndex(index, sourceCount))

\* recordTranslator.isSkippedRow(physicalRow)
isSkippedRow(physicalRow) == includes(skippedRows, physicalRow)

\* one run of hot.runHooks(name, ...args), as it is kept in `fired`
Hook(name, args) == [name |-> name, args |-> args]

\* BasePlugin.enablePlugin / BasePlugin.disablePlugin: the `enabled` flag
superEnablePlugin(plugin) == [plugin EXCEPT !.enabled = TRUE]
superDisablePlugin(plugin) == [plugin EXCEPT !.enabled = FALSE]
\* BasePlugin.updatePlugin does nothing
superUpdatePlugin(plugin) == plugin

(***************************************************************************)
(* The methods of TrimRows.  The lifecycle methods map the skip list and   *)
(* the enabled flag to their values when the method returns; trimRows and  *)
(* untrimRows map the skip list they find, their argument and the          *)
(* before-hook's result to the list they leave and the hooks they ran.     *)
(* `raised` tells that the method ended by an error the registry raised:   *)
(* no method of the plugin catches one, so the statements after the        *)
(* setSkippedRows call did not run.                                        *)
(***************************************************************************)
\* TrimRows.isEnabled(): `!!getSettings().trimRows`, the option's truthiness
isEnabled == settings.truthy

\* TrimRows.enablePlugin(); an error the registry raises ends the method
\* before super.enablePlugin()
enablePlugin_noGuard(plugin) ==
    LET set == setSkippedRows(plugin.skippedRows, settings.list)
    IN  IF ~settings.isArray THEN superEnablePlugin(plugin)
        ELSE IF set.raised THEN [plugin EXCEPT !.raised = TRUE]
        ELSE superEnablePlugin([plugin EXCEPT !.skippedRows = set.skippedRows])
enablePlugin(plugin) ==
    LET set == setSkippedRows(plugin.skippedRows, settings.list)
    IN  IF plugin.enabled THEN plugin
        ELSE IF ~settings.isArray THEN superEnablePlugin(plugin)
        ELSE IF set.raised THEN [plugin EXCEPT !.raised = TRUE]
        ELSE superEnablePlugin([plugin EXCEPT !.skippedRows = set.skippedRows])

\* TrimRows.disablePlugin()
disablePlugin_keepsRows(plugin) == superDisablePlugin(plugin)
disablePlugin(plugin) ==
    LET set == setSkippedRows(plugin.skippedRows, <<>>)
    IN  IF set.raised THEN [plugin EXCEPT !.raised = TRUE]
        ELSE superDisablePlugin([plugin EXCEPT !.skippedRows = set.skippedRows])

\* disablePlugin() then enablePlugin(), as updatePlugin runs them
reset(plugin) ==
    LET off == disablePlugin(plugin)
    IN  IF off.raised THEN off ELSE enablePlugin(off)

\* TrimRows.updatePlugin()
updatePlugin(plugin) ==
    IF settings.isArray
    THEN LET on == reset(plugin)
         IN  IF on.raised THEN on ELSE superUpdatePlugin(on)
    ELSE superUpdatePlugin(plugin)

\* the test `allowTrimRow === false` / `allowUntrimRow === false`
vetoed_ignored(allow) == FALSE
vetoed(allow) == allow = "false"

\* destinationTrimConfig of trimRows
trimDestination_replaces(currentTrimConfig, rows) ==
    IF isValidConfig(rows) THEN ArrayFromSet(rows) ELSE currentTrimConfig
trimDestination_keepsRepeats(currentTrimConfig, rows) ==
    IF isValidConfig(rows) THEN currentTrimConfig \o rows ELSE currentTrimConfig
trimDestination(currentTrimConfig, rows) ==
    IF isValidConfig(rows) THEN ArrayFromSet(currentTrimConfig \o rows)
    ELSE currentTrimConfig

\* destinationTrimConfig of untrimRows
untrimDestination(currentTrimConfig, rows) ==
    IF isValidConfig(rows)
    THEN SelectSeq(currentTrimConfig,
                   LAMBDA trimmedRow : includes(rows, trimmedRow) = FALSE)
    ELSE currentTrimConfig

\* the fourth argument of afterTrimRow
trimChanged(currentTrimConfig, destinationTrimConfig, valid) ==
    valid /\ Len(destinationTrimConfig) > Len(currentTrimConfig)

\* the fourth argument of afterUntrimRow
untrimChanged(currentTrimConfig, destinationTrimConfig, valid) ==
    valid /\ Len(destinationTrimConfig) < Len(currentTrimConfig)

\* the part of trimRows / untrimRows after the before-hook: the veto test, the
\* write when the rows are valid, the after-hook
afterBefore(registry, destinationTrimConfig, valid, allow, before, after) ==
    LET set == setSkippedRows(registry, destinationTrimConfig)
    IN  IF vetoed(allow)
        THEN [skippedRows |-> registry, fired |-> <<before>>,
              steps |-> <<before.name>>, raised |-> FALSE]
        ELSE IF ~valid
        THEN [skippedRows |-> registry, fired |-> <<before, after>>,
              steps |-> <<before.name, after.name>>, raised |-> FALSE]
        ELSE IF set.raised
        THEN [skippedRows |-> set.skippedRows, fired |-> <<before>>,
              steps |-> <<before.name, "setSkippedRows">>, raised |-> TRUE]
        ELSE [skippedRows |-> set.skippedRows, fired |-> <<before, after>>,
              steps |-> <<before.name, "setSkippedRows", after.name>>,
              raised |-> FALSE]

\* TrimRows.trimRows(rows); allowTrimRow is what runHooks('beforeTrimRow') returned
trimRows_afterReadsRegistry(currentTrimConfig, rows, allowTrimRow) ==
    LET valid == isValidConfig(rows)
        destinationTrimConfig == trimDestination(currentTrimConfig, rows)
        before == Hook("beforeTrimRow",
                       <<currentTrimConfig, destinationTrimConfig, valid>>)
        after  == Hook("afterTrimRow",
                       <<destinationTrimConfig, destinationTrimConfig, valid,
                         trimChanged(currentTrimConfig, destinationTrimConfig, valid)>>)
    IN  afterBefore(currentTrimConfig, destinationTrimConfig, valid, allowTrimRow,
                    before, after)
trimRows(currentTrimConfig, rows, allowTrimRow) ==
    LET valid == isValidConfig(rows)
        destinationTrimConfig == trimDestination(currentTrimConfig, rows)
        before == Hook("beforeTrimRow",
                       <<currentTrimConfig, destinationTrimConfig, valid>>)
        after  == Hook("afterTrimRow",
                       <<currentTrimConfig, destinationTrimConfig, valid,
                         trimChanged(currentTrimConfig, destinationTrimConfig, valid)>>)
    IN  afterBefore(currentTrimConfig, destinationTrimConfig, valid, allowTrimRow,
                    before, after)

\* TrimRows.untrimRows(rows); allowUntrimRow is what runHooks('beforeUntrimRow') returned
untrimRows(currentTrimConfig, rows, allowUntrimRow) ==
    LET valid == isValidConfig(rows)
        destinationTrimConfig == untrimDestination(currentTrimConfig, rows)
        before == Hook("beforeUntrimRow",
                       <<currentTrimConfig, destinationTrimConfig, valid>>)
        after  == Hook("afterUntrimRow",
                       <<currentTrimConfig, destinationTrimConfig, valid,
                         untrimChanged(currentTrimConfig, destinationTrimConfig, valid)>>)
    IN  afterBefore(currentTrimConfig, destinationTrimConfig, valid, allowUntrimRow,
                    before, after)

\* TrimRows.untrimAll()
untrimAll(currentTrimConfig, allowUntrimRow) ==
    untrimRows(currentTrimConfig, <<>> \o currentTrimConfig, allowUntrimRow)

\* TrimRows.isTrimmed(physicalRow)
isTrimmed(physicalRow) == isSkippedRow(physicalRow)

(***************************************************************************)
(* The index translator the skip list feeds.  An order is a permutation of *)
(* the physical rows 0 .. countSourceRows - 1; the composed mapping is the *)
(* order with the skipped rows left out, and a row's visual index is its   *)
(* position in it, counted from 0.                                         *)
(***************************************************************************)
\* the physical rows of the source
PhysicalRows == 0..(countSourceRows - 1)

\* the valid contents of the order registry
Orders ==
    {order \in [1..countSourceRows -> PhysicalRows] :
        \A i, j \in 1..countSourceRows : order[i] = order[j] => i = j}

\* the result of toVisual for a row that is not in the visual space
None == -1

\* the order applied to the physical rows, without the rows of the skip set
composedMapping_unfiltered(order) == order
composedMapping(order) ==
    SelectSeq(order, LAMBDA physicalRow : ~isSkippedRow(physicalRow))

\* visibleCount(): totalPhysicalCount - |union of all skip sets|
visibleCount == countSourceRows - Cardinality(Range(skippedRows))

toPhysical(order, visualRow) == composedMapping(order)[visualRow + 1]

toVisual(order, physicalRow) ==
    LET mapping == composedMapping(order)
    IN  IF includes(mapping, physicalRow)
        THEN (CHOOSE i \in DOMAIN mapping : mapping[i] = physicalRow) - 1
        ELSE None

(***************************************************************************)
(* A listener that calls the plugin.  runHooks is synchronous: the         *)
(* listener's call runs to completion inside the outer call's before-hook, *)
(* after the outer call has read the skip list and computed its            *)
(* destination, and before the outer call writes it.  The listener does    *)
(* not answer the hooks of its own call; what it returns, `allow`, is the  *)
(* outer before-hook's result.                                             *)
(***************************************************************************)
\* the call the listener makes, on the skip list it finds
listenerRuns(registry, call) ==
    IF call.op = "trimRows" THEN trimRows(registry, call.rows, "undefined")
    ELSE untrimRows(registry, call.rows, "undefined")

\* the outer call around it: `outer` is the call as it runs from the list it
\* read; it overwrites the listener's list only when it reaches setSkippedRows,
\* that is when it is not vetoed and its rows are valid.  An error raised in
\* the listener's call ends the outer call inside its before-hook.
withListenerCall(currentTrimConfig, rows, allow, outer, call) ==
    LET inner == listenerRuns(currentTrimConfig, call)
    IN  IF inner.raised
        THEN [skippedRows |-> inner.skippedRows,
              fired |-> <<outer.fired[1]>> \o inner.fired,
              steps |-> <<outer.steps[1]>> \o inner.steps,
              raised |-> TRUE]
        ELSE [skippedRows |-> IF ~vetoed(allow) /\ isValidConfig(rows) /\ ~outer.raised
                              THEN outer.skippedRows
                              ELSE inner.skippedRows,
              fired |-> <<outer.fired[1]>> \o inner.fired \o Tail(outer.fired),
              steps |-> <<outer.steps[1]>> \o inner.steps \o Tail(outer.steps),
              raised |-> outer.raised]

\* TrimRows.trimRows(rows) with such a listener on beforeTrimRow
trimRowsReentrant(currentTrimConfig, rows, allow, call) ==
    withListenerCall(currentTrimConfig, rows, allow,
                     trimRows(currentTrimConfig, rows, allow), call)

\* TrimRows.untrimRows(rows) with such a listener on beforeUntrimRow
untrimRowsReentrant(currentTrimConfig, rows, allow, call) ==
    withListenerCall(currentTrimConfig, rows, allow,
                     untrimRows(currentTrimConfig, rows, allow), call)

(***************************************************************************)
(* The state machine.                                                      *)
(***************************************************************************)
\* what `lastCall` keeps of a call: the method, its argument, the before-hook's
\* result, the skip list and the enabled flag the call found, and whether the
\* call ended by an error
Call(op, rows, allow, raised) ==
    [op |-> op, rows |-> rows, allow |-> allow,
     before |-> skippedRows, wasEnabled |-> enabled, raised |-> raised]

\* the plugin is constructed, not yet enabled; the host has its data and options
Init ==
    /\ skippedRows = <<>>
    /\ enabled = FALSE
    /\ settings \in SettingsValues
    /\ countSourceRows \in SourceRowCounts
    /\ lastCall = [op |-> "new", rows |-> <<>>, allow |-> "undefined",
                   before |-> <<>>, wasEnabled |-> FALSE, raised |-> FALSE]
    /\ fired = <<>>
    /\ repeated = FALSE
    /\ steps = <<>>
    /\ listenerCall = NoCall

Lifecycle(op, plugin) ==
    /\ skippedRows' = plugin.skippedRows
    /\ enabled' = plugin.enabled
    /\ lastCall' = Call(op, <<>>, "undefined", plugin.raised)
    /\ fired' = <<>>
    /\ repeated' = FALSE
    /\ steps' = <<>>
    /\ listenerCall' = NoCall
    /\ UNCHANGED <<settings, countSourceRows>>

ThisPlugin == [skippedRows |-> skippedRows, enabled |-> enabled, raised |-> FALSE]

EnablePlugin == Lifecycle("enablePlugin", enablePlugin(ThisPlugin))

DisablePlugin == Lifecycle("disablePlugin", disablePlugin(ThisPlugin))

UpdatePlugin == Lifecycle("updatePlugin", updatePlugin(ThisPlugin))

TransformWith(op, rows, allow, result, call) ==
    /\ skippedRows' = result.skippedRows
    /\ fired' = result.fired
    /\ steps' = result.steps
    /\ listenerCall' = call
    /\ lastCall' = Call(op, rows, allow, result.raised)
    /\ repeated' = (/\ lastCall.op = op
                    /\ lastCall.rows = rows
                    /\ Len(fired) = 2
                    /\ fired[1].args[3])
    /\ UNCHANGED <<enabled, settings, countSourceRows>>

Transform(op, rows, allow, result) == TransformWith(op, rows, allow, result, NoCall)

TrimRows ==
    \E rows \in RowLists, allow \in ListenerReturns :
        Transform("trimRows", rows, allow, trimRows(getSkippedRows, rows, allow))

UntrimRows ==
    \E rows \in RowLists, allow \in ListenerReturns :
        Transform("untrimRows", rows, allow, untrimRows(getSkippedRows, rows, allow))

UntrimAll ==
    \E allow \in ListenerReturns :
        Transform("untrimAll", getSkippedRows, allow, untrimAll(getSkippedRows, allow))

\* the host's options are replaced (Core.updateSettings)
UpdateSettings ==
    \E s \in SettingsValues \ {settings} :
        /\ settings' = s
        /\ lastCall' = Call("updateSettings", <<>>, "undefined", FALSE)
        /\ fired' = <<>>
        /\ repeated' = FALSE
        /\ steps' = <<>>
        /\ listenerCall' = NoCall
        /\ UNCHANGED <<skippedRows, enabled, countSourceRows>>

\* the host's data source is replaced by one of another length (Core.loadData):
\* the swap forces the re-validation of the registry
LoadData ==
    \E n \in SourceRowCounts \ {countSourceRows} :
        /\ countSourceRows' = n
        /\ skippedRows' = revalidate(skippedRows, n)
        /\ lastCall' = Call("loadData", <<>>, "undefined", FALSE)
        /\ fired' = <<>>
        /\ repeated' = FALSE
        /\ steps' = <<>>
        /\ listenerCall' = NoCall
        /\ UNCHANGED <<enabled, settings>>

Next ==
    \/ EnablePlugin
    \/ DisablePlugin
    \/ UpdatePlugin
    \/ TrimRows
    \/ UntrimRows
    \/ UntrimAll
    \/ UpdateSettings
    \/ LoadData

Spec == Init /\ [][Next]_vars

(***************************************************************************)
(* The same machine with listeners that call the plugin from a             *)
(* before-hook.                                                            *)
(***************************************************************************)
ReentrantTrimRows ==
    \E rows \in ReentrantRowLists, allow \in ListenerReturns, call \in ListenerCalls :
        TransformWith("trimRows", rows, allow,
                      trimRowsReentrant(getSkippedRows, rows, allow, call), call)

ReentrantUntrimRows ==
    \E rows \in ReentrantRowLists, allow \in ListenerReturns, call \in ListenerCalls :
        TransformWith("untrimRows", rows, allow,
                      untrimRowsReentrant(getSkippedRows, rows, allow, call), call)

NextReentrant ==
    \/ Next
    \/ ReentrantTrimRows
    \/ ReentrantUntrimRows

SpecReentrant == Init /\ [][NextReentrant]_vars


(***************************************************************************)
(* Vocabulary of the properties.  They read the most recent call from      *)
(* `lastCall` and `fired`; countSourceRows is the count that call saw,     *)
(* since only loadData changes it.                                         *)
(***************************************************************************)
IsTrim == lastCall.op = "trimRows"
IsUntrim == lastCall.op \in {"untrimRows", "untrimAll"}
IsTransform == IsTrim \/ IsUntrim
Vetoed == lastCall.allow = "false"

\* every element is a non-negative integer strictly less than the row count
ValidRows(rows) == \A i \in DOMAIN rows : rows[i] \in 0..(countSourceRows - 1)

BeforeName == IF IsTrim THEN "beforeTrimRow" ELSE "beforeUntrimRow"
AfterName == IF IsTrim THEN "afterTrimRow" ELSE "afterUntrimRow"

\* the arguments of a hook: (currentSet, proposedSet, isValid, didChange)
CurrentSetOf(hook) == hook.args[1]
ProposedSetOf(hook) == hook.args[2]
IsValidOf(hook) == hook.args[3]
DidChangeOf(hook) == hook.args[4]

\* the call ran its before-hook and then its after-hook, each once
FiredBeforeThenAfter ==
    /\ Len(fired) = 2
    /\ fired[1].name = BeforeName
    /\ fired[2].name = AfterName

\* the call ran its before-hook once and nothing else
FiredBeforeOnly ==
    /\ Len(fired) = 1
    /\ fired[1].name = BeforeName

(***************************************************************************)
(* C1 - Veto prevents mutation: when the before-hook of a trimRows,        *)
(* untrimRows or untrimAll call returns exactly false, the skip list when  *)
(* the call returns is the list the call found, valid argument or not.     *)
(***************************************************************************)
C1_VetoPreventsMutation ==
    (IsTransform /\ Vetoed) => skippedRows = lastCall.before

\* a vetoed trimRows whose argument is valid and names a row not yet trimmed
C1_Witness ==
    /\ IsTrim /\ Vetoed
    /\ ValidRows(lastCall.rows)
    /\ \E i \in DOMAIN lastCall.rows : ~includes(lastCall.before, lastCall.rows[i])

(***************************************************************************)
(* C2 - The after-event always fires: every trimRows / untrimRows call     *)
(* fires its after-hook exactly once, after its before-hook, whether it    *)
(* committed, was rejected as invalid or was vetoed.                       *)
(***************************************************************************)
C2_AfterEventAlwaysFires == IsTransform => FiredBeforeThenAfter

(***************************************************************************)
(* C3 - Invalid batch rejection: a call whose argument holds an invalid    *)
(* element raises no error and leaves the skip list as it found it, and    *)
(* its before-hook and its after-hook both run with isValid = false and    *)
(* proposedSet = currentSet.                                               *)
(***************************************************************************)
RejectedHook(hook) ==
    /\ IsValidOf(hook) = FALSE
    /\ CurrentSetOf(hook) = lastCall.before
    /\ ProposedSetOf(hook) = CurrentSetOf(hook)

C3_InvalidBatchRejected ==
    (IsTransform /\ ~ValidRows(lastCall.rows)) =>
        /\ ~lastCall.raised
        /\ skippedRows = lastCall.before
        /\ FiredBeforeThenAfter
        /\ RejectedHook(fired[1])
        /\ RejectedHook(fired[2])

(***************************************************************************)
(* C4 - Valid, non-vetoed transforms compute the right set: after          *)
(* trimRows(rows) the rows in the skip list are those it held before       *)
(* together with rows; after untrimRows(rows) they are those it held       *)
(* before except rows.                                                     *)
(***************************************************************************)
C4_TransformComputesSet ==
    (IsTransform /\ ValidRows(lastCall.rows) /\ ~Vetoed) =>
        Range(skippedRows) =
            IF IsTrim THEN Range(lastCall.before) \cup Range(lastCall.rows)
            ELSE Range(lastCall.before) \ Range(lastCall.rows)

\* an untrimRows that removes one trimmed row and leaves another trimmed
C4_Witness ==
    /\ lastCall.op = "untrimRows" /\ ~Vetoed
    /\ ValidRows(lastCall.rows)
    /\ Range(lastCall.rows) \cap Range(lastCall.before) # {}
    /\ Range(lastCall.before) \ Range(lastCall.rows) # {}

C6_ReconfigureIsFullReset ==
    (lastCall.op = "updatePlugin" /\ settings.isArray) =>
        /\ enabled
        /\ Range(skippedRows) = Range(settings.list)

(***************************************************************************)
(* C6 - as amended: after updatePlugin ran with an array L of valid rows   *)
(* configured, the plugin is enabled and the skip list holds exactly the   *)
(* rows of L, whatever it held before.  When L holds an invalid row, the   *)
(* reset stops at the registry's error: the rows the list held before are  *)
(* discarded all the same, the list is empty and the plugin is disabled.   *)
(***************************************************************************)
C6_ReconfigureValidIsFullReset ==
    (lastCall.op = "updatePlugin" /\ settings.isArray) =>
        IF ValidRows(settings.list)
        THEN /\ enabled
             /\ Range(skippedRows) = Range(settings.list)
             /\ ~lastCall.raised
        ELSE /\ ~enabled
             /\ skippedRows = <<>>
             /\ lastCall.raised

\* updatePlugin on an enabled plugin whose list held a row the valid list L
\* does not hold
C6_Witness ==
    /\ lastCall.op = "updatePlugin" /\ settings.isArray
    /\ ValidRows(settings.list)
    /\ lastCall.wasEnabled
    /\ Range(lastCall.before) \ Range(settings.list) # {}

(***************************************************************************)
(* C7 - as claimed: whenever the plugin is disabled the skip list is       *)
(* empty.                                                                  *)
(***************************************************************************)
C7_DisabledImpliesEmpty == ~enabled => skippedRows = <<>>

(***************************************************************************)
(* C7 - as amended: disablePlugin leaves the plugin disabled and the skip  *)
(* list empty, and while the plugin is disabled no call other than         *)
(* trimRows puts a row into an empty skip list (trimRows does not look at  *)
(* the enabled flag, and does).                                            *)
(***************************************************************************)
C7_DisableClears ==
    /\ lastCall.op = "disablePlugin" => (~enabled /\ skippedRows = <<>>)
    /\ (~enabled /\ ~IsTrim /\ lastCall.before = <<>>) => skippedRows = <<>>

\* disablePlugin on an enabled plugin with trimmed rows
C7_Witness ==
    /\ lastCall.op = "disablePlugin"
    /\ lastCall.wasEnabled
    /\ lastCall.before # <<>>

(***************************************************************************)
(* C8 - The changed flag reports real change: the fourth argument of the   *)
(* after-hook is true exactly when the set of rows in the skip list after  *)
(* the call differs from the set before the call.                          *)
(***************************************************************************)
C8_ChangedFlagReportsRealChange ==
    (IsTransform /\ Len(fired) = 2) =>
        (DidChangeOf(fired[2]) <=> Range(skippedRows) # Range(lastCall.before))

\* a committed call on the list loaded from a configured list with a repeated
\* row: a trimRows of that row (nothing changes) or an untrimRows of it
C8_Witness ==
    /\ lastCall.op \in {"trimRows", "untrimRows"} /\ Len(fired) = 2
    /\ settings.isArray
    /\ Len(settings.list) > Cardinality(Range(settings.list))
    /\ Range(lastCall.before) = Range(settings.list)
    /\ Range(lastCall.rows) = Range(settings.list)

(***************************************************************************)
(* C9 - Trimming is idempotent: a trimRows(rows) call that repeats, with   *)
(* no veto, the committed trimRows(rows) call right before it leaves the   *)
(* skip list as the first call left it, and its after-hook runs with       *)
(* changed = false.                                                        *)
(***************************************************************************)
C9_TrimIsIdempotent ==
    (IsTrim /\ repeated /\ ~Vetoed) =>
        /\ skippedRows = lastCall.before
        /\ FiredBeforeThenAfter
        /\ DidChangeOf(fired[2]) = FALSE

\* the second of two trimRows calls with the same non-empty valid argument
C9_Witness ==
    /\ IsTrim /\ repeated /\ ~Vetoed
    /\ lastCall.rows # <<>>
    /\ ValidRows(lastCall.rows)

(***************************************************************************)
(* C10 - Untrimming non-trimmed rows is a no-op: untrimRows(rows) with no  *)
(* element of rows in the skip list leaves the list as it was and fires    *)
(* afterUntrimRow with changed = false, valid argument or not.             *)
(***************************************************************************)
NoneTrimmed == Range(lastCall.rows) \cap Range(lastCall.before) = {}

C10_UntrimNonTrimmedIsNoop ==
    (lastCall.op = "untrimRows" /\ NoneTrimmed) =>
        /\ skippedRows = lastCall.before
        /\ FiredBeforeThenAfter
        /\ DidChangeOf(fired[2]) = FALSE


(***************************************************************************)
(* C11 - untrimAll empties the registry: whenever untrimAll returns        *)
(* without a veto, the skip list is empty, whatever it held before.        *)
(***************************************************************************)
C11_UntrimAllEmpties ==
    (lastCall.op = "untrimAll" /\ ~Vetoed) => skippedRows = <<>>

\* a not vetoed untrimAll on a list that holds a row
C11_Witness ==
    /\ lastCall.op = "untrimAll" /\ ~Vetoed
    /\ lastCall.before # <<>>

Count(rowSet) == countSourceRows - Cardinality(rowSet)

EmptyCall == lastCall.op \in {"trimRows", "untrimRows"} /\ lastCall.rows = <<>>

C16_EmptyInputIsNoop ==
    EmptyCall =>
        /\ Range(skippedRows) = Range(lastCall.before)
        /\ FiredBeforeThenAfter
        /\ IsValidOf(fired[1]) = TRUE
        /\ IsValidOf(fired[2]) = TRUE
        /\ DidChangeOf(fired[2]) = FALSE


(***************************************************************************)
(* C17 - Protocol order and hook arguments: a valid, non-vetoed trimRows / *)
(* untrimRows call writes the skip list exactly once, after its            *)
(* before-hook and before its after-hook; the list when the call returns   *)
(* is the proposedSet both hooks received, and the currentSet both hooks   *)
(* received is the list the call found.                                    *)
(***************************************************************************)
C17_ProtocolOrderAndArguments ==
    (IsTransform /\ ValidRows(lastCall.rows) /\ ~Vetoed) =>
        /\ steps = <<BeforeName, "setSkippedRows", AfterName>>
        /\ FiredBeforeThenAfter
        /\ \A i \in DOMAIN fired :
              /\ ProposedSetOf(fired[i]) = skippedRows
              /\ CurrentSetOf(fired[i]) = lastCall.before

\* a committed trimRows that adds a row to a non-empty skip list
C17_Witness ==
    /\ IsTrim /\ ~Vetoed /\ ValidRows(lastCall.rows)
    /\ lastCall.before # <<>>
    /\ Range(skippedRows) # Range(lastCall.before)


(***************************************************************************)
(* C18 - as claimed: when a before-hook listener calls trimRows or         *)
(* untrimRows during an outer valid, non-vetoed call, the skip list the    *)
(* outer call leaves reflects both changes: the listener's, then the       *)
(* outer call's.                                                           *)
(***************************************************************************)
SetAfter(op, rowSet, rows) ==
    IF op = "trimRows" THEN rowSet \cup Range(rows) ELSE rowSet \ Range(rows)

C18_NoLostUpdate ==
    (/\ listenerCall # NoCall
     /\ ~Vetoed
     /\ ValidRows(lastCall.rows)
     /\ ValidRows(listenerCall.rows)) =>
        Range(skippedRows) =
            SetAfter(lastCall.op,
                     SetAfter(listenerCall.op, Range(lastCall.before),
                              listenerCall.rows),
                     lastCall.rows)


(***************************************************************************)
(* C19 - Enabling an already-enabled plugin is a no-op: enablePlugin       *)
(* called while the plugin is enabled leaves the skip list as it was (the  *)
(* configured list is not loaded again) and the plugin enabled.            *)
(***************************************************************************)
C19_EnableWhenEnabledIsNoop ==
    (lastCall.op = "enablePlugin" /\ lastCall.wasEnabled) =>
        /\ skippedRows = lastCall.before
        /\ enabled

\* enablePlugin on an enabled plugin whose skip list differs from the configured list
C19_Witness ==
    /\ lastCall.op = "enablePlugin" /\ lastCall.wasEnabled
    /\ settings.isArray
    /\ lastCall.before # settings.list

=============================================================================
